---- MODULE Spec2Model ----
(***************************************************************************)
(* The three scripts of the repository: main.py (single-prompt query),     *)
(* Simplechain.py (three-stage SequentialChain with per-stage              *)
(* ConversationBufferMemory) and prompt.py (PromptTemplate / LLMChain /    *)
(* FewShotPromptTemplate demonstration).                                   *)
(*                                                                         *)
(* A text is a sequence of tokens (strings); the empty text is <<>>, and   *)
(* the token "\n" is a line break.  A mapping is a function from a set of  *)
(* key names to texts.  A process runs exactly one of the scripts.  The    *)
(* two interactive scripts are executed from top to bottom once per        *)
(* submitted input (a "run"); prompt.py is executed once.                  *)
(***************************************************************************)
EXTENDS Integers, Sequences, FiniteSets, TLC

(* ---------------------------- bounds ---------------------------------- *)
MaxRuns == 2
NumCompletions == 2

(* ------------------------- program constants -------------------------- *)
\* OpenAI(temperature=0.8), in tenths
Temperature == 8

Scripts == {"main", "Simplechain", "prompt"}

\* values st.text_input can return: the empty text before anything is typed
Inputs == {<<>>, <<"Albert Einstein">>, <<"GDP">>}

\* texts the completion API can return
Completions == {<<"completion", ToString(i)>> : i \in 1..NumCompletions}

Keys == {"financial_concept", "sentence", "target_language", "word",
         "antonym", "input", "name", "person", "dob"}

EmptyMap == [k \in {} |-> <<>>]

(* ------------------------------ texts --------------------------------- *)
RECURSIVE Flatten(_)
Flatten(ss) == IF ss = <<>> THEN <<>> ELSE Head(ss) \o Flatten(Tail(ss))

RECURSIVE Join(_, _)
Join(ss, sep) ==
    IF ss = <<>> THEN <<>>
    ELSE IF Len(ss) = 1 THEN Head(ss)
    ELSE Head(ss) \o sep \o Join(Tail(ss), sep)

\* the lines of a text: the token runs between "\n" tokens
RECURSIVE Lines(_)
Lines(t) ==
    IF \A i \in 1..Len(t) : t[i] # "\n" THEN <<t>>
    ELSE LET n == CHOOSE i \in 1..Len(t) :
                     t[i] = "\n" /\ \A j \in 1..(i-1) : t[j] # "\n"
         IN  <<SubSeq(t, 1, n-1)>> \o Lines(SubSeq(t, n+1, Len(t)))

Restrict(m, S) == [k \in S |-> m[k]]

Merge(m1, m2) ==
    [k \in DOMAIN m1 \cup DOMAIN m2 |-> IF k \in DOMAIN m2 THEN m2[k] ELSE m1[k]]

(* --------------------------- prompt templates ------------------------- *)
Lit(s) == [kind |-> "lit", s |-> s]
Var(k) == [kind |-> "var", s |-> k]

\* the placeholders that occur in a template string
TemplateVars(template) ==
    {template[i].s : i \in {j \in 1..Len(template) : template[j].kind = "var"}}

\* variant: a placeholder without a value is left empty
FormatTemplate_Lenient(template, kwargs) ==
    IF ~(DOMAIN kwargs \subseteq TemplateVars(template))
    THEN [error |-> "unused", text |-> <<>>]
    ELSE [error |-> "none",
          text  |-> Flatten([i \in 1..Len(template) |->
                        IF template[i].kind = "var"
                        THEN IF template[i].s \in DOMAIN kwargs
                             THEN kwargs[template[i].s] ELSE <<>>
                        ELSE <<template[i].s>>])]

\* formatter.format(template, **kwargs): a placeholder without a value is a
\* missing-variable error; otherwise a value without a placeholder is an
\* unused-variable error; otherwise every placeholder is replaced.
FormatTemplate(template, kwargs) ==
    IF ~(TemplateVars(template) \subseteq DOMAIN kwargs)
    THEN [error |-> "missing", text |-> <<>>]
    ELSE IF ~(DOMAIN kwargs \subseteq TemplateVars(template))
    THEN [error |-> "unused", text |-> <<>>]
    ELSE [error |-> "none",
          text  |-> Flatten([i \in 1..Len(template) |->
                        IF template[i].kind = "var"
                        THEN kwargs[template[i].s]
                        ELSE <<template[i].s>>])]

\* prompt.py
prompt ==
    [type |-> "prompt", input_variables |-> {"financial_concept"},
     template |-> <<Lit(" I want you to act as a financial advisor for people. In an easy way, explain the basics of "),
                    Var("financial_concept"), Lit(".")>>]

lang_prompt ==
    [type |-> "prompt", input_variables |-> {"sentence", "target_language"},
     template |-> <<Lit("Translate the following sentence "), Var("sentence"),
                    Lit(" into "), Var("target_language")>>]

examples ==
    << [word |-> <<"tall">>,  antonym |-> <<"short">>],
       [word |-> <<"happy">>, antonym |-> <<"sad">>] >>

example_prompt_f ==
    [type |-> "prompt", input_variables |-> {"word", "antonym"},
     template |-> <<Lit("word:"), Var("word"), Lit(", antonym:"), Var("antonym")>>]

few_shot ==
    [type |-> "few_shot", input_variables |-> {"input"},
     examples |-> examples, example_prompt |-> example_prompt_f,
     prefix |-> <<Lit("Given the antonym of every input"), Lit("\n")>>,
     suffix |-> <<Lit("word:"), Var("input"), Lit("\n"), Lit(" antonym:")>>,
     example_separator |-> <<Lit("\n")>>]

\* Simplechain.py
first_input ==
    [type |-> "prompt", input_variables |-> {"name"},
     template |-> <<Lit("Tell me about "), Var("name")>>]

second_input ==
    [type |-> "prompt", input_variables |-> {"person"},
     template |-> <<Lit("When was "), Var("person"), Lit(" born")>>]

third_input ==
    [type |-> "prompt", input_variables |-> {"dob"},
     template |-> <<Lit("Mention five major event in this "), Var("dob")>>]

Prompts == {prompt, lang_prompt, example_prompt_f, few_shot,
            first_input, second_input, third_input}

\* a text as literal template pieces
AsLits(t) == [i \in 1..Len(t) |-> Lit(t[i])]

\* variant: the examples are taken in reverse order
FewShotTemplate_Reversed(fs) ==
    LET n == Len(fs.examples)
        example_strings ==
            [i \in 1..n |->
                AsLits(FormatTemplate(fs.example_prompt.template,
                           Restrict(fs.examples[n + 1 - i],
                                    fs.example_prompt.input_variables)).text)]
        pieces == <<fs.prefix>> \o example_strings \o <<fs.suffix>>
    IN  Join(SelectSeq(pieces, LAMBDA p : p # <<>>), fs.example_separator)

\* FewShotPromptTemplate: every example is projected onto the example
\* prompt's variables and formatted; prefix, the example strings and the
\* suffix (empty pieces dropped) are joined with the separator into one
\* template.
FewShotTemplate(fs) ==
    LET example_strings ==
            [i \in 1..Len(fs.examples) |->
                AsLits(FormatTemplate(fs.example_prompt.template,
                           Restrict(fs.examples[i],
                                    fs.example_prompt.input_variables)).text)]
        pieces == <<fs.prefix>> \o example_strings \o <<fs.suffix>>
    IN  Join(SelectSeq(pieces, LAMBDA p : p # <<>>), fs.example_separator)

\* p.format(**kwargs)
Format(p, kwargs) ==
    IF p.type = "few_shot"
    THEN FormatTemplate(FewShotTemplate(p), kwargs)
    ELSE FormatTemplate(p.template, kwargs)

(* ------------------------ conversation buffers ------------------------ *)
\* ConversationBufferMemory(input_key=..., memory_key=...); the buffer itself
\* is state (person_memory, dob_memory, desc_memory below)
NoMemory == [name |-> "none", input_key |-> "", memory_key |-> ""]

MemoryVariables(mem) == IF mem.name = "none" THEN {} ELSE {mem.memory_key}

\* memory.buffer: "Human: <input>\nAI: <output>" per entry, joined by "\n"
BufferString(buf) ==
    Join([i \in 1..Len(buf) |->
             <<"Human: ">> \o buf[i][1] \o <<"\n", "AI: ">> \o buf[i][2]],
         <<"\n">>)

\* save_context(inputs, outputs): one (input, output) entry is appended
SaveContext(buf, mem, inputs, outputs, output_key) ==
    Append(buf, <<inputs[mem.input_key], outputs[output_key]>>)

(* ------------------------------- chains ------------------------------- *)
\* Simplechain.py
chain ==
    [prompt |-> first_input, output_key |-> "person",
     memory |-> [name |-> "person_memory", input_key |-> "name",
                 memory_key |-> "person_history"]]

chain2 ==
    [prompt |-> second_input, output_key |-> "dob",
     memory |-> [name |-> "dob_memory", input_key |-> "person",
                 memory_key |-> "dob_history"]]

chain3 ==
    [prompt |-> third_input, output_key |-> "description",
     memory |-> [name |-> "desc_memory", input_key |-> "dob",
                 memory_key |-> "desc_history"]]

\* variant: chain3 is listed before chain2
chains_Misordered == <<chain, chain3, chain2>>

chains == <<chain, chain2, chain3>>

parent_chain ==
    [chains |-> chains, input_variables |-> {"name"},
     output_variables |-> {"person", "dob", "description"}]

\* prompt.py (its chain, chain2, chain3; output_key defaults to "text")
prompt_chain  == [prompt |-> prompt,      output_key |-> "text", memory |-> NoMemory]

prompt_chain2 == [prompt |-> lang_prompt, output_key |-> "text", memory |-> NoMemory]

prompt_chain3 == [prompt |-> few_shot,    output_key |-> "text", memory |-> NoMemory]

\* the four chain calls of prompt.py, in program order; run = .run(...),
\* which returns the output text instead of the whole mapping
Calls ==
    << [chain |-> prompt_chain,  is_dict |-> FALSE, text |-> <<"GDP">>,
        dict |-> EmptyMap, run |-> TRUE],
       [chain |-> prompt_chain2, is_dict |-> TRUE,  text |-> <<>>,
        dict |-> [sentence |-> <<"Hellow, How r u">>,
                  target_language |-> <<"Telugu">>], run |-> TRUE],
       [chain |-> prompt_chain3, is_dict |-> TRUE,  text |-> <<>>,
        dict |-> [input |-> <<"big">>], run |-> FALSE],
       [chain |-> prompt_chain3, is_dict |-> FALSE, text |-> <<"big">>,
        dict |-> EmptyMap, run |-> TRUE] >>

\* Chain.input_keys of an LLMChain
InputKeys(ch) == ch.prompt.input_variables

\* Chain.prep_inputs: a bare value is filed under the only input key that
\* is not a memory variable; the memory variable is added to the inputs
PrepInputs(ch, is_dict, text, dict, buf) ==
    LET free  == InputKeys(ch) \ MemoryVariables(ch.memory)
        given == IF is_dict THEN dict
                 ELSE [k \in free |-> text]
        ext   == [k \in MemoryVariables(ch.memory) |-> BufferString(buf)]
    IN  [error  |-> IF ~is_dict /\ Cardinality(free) # 1 THEN "one_key"
                    ELSE IF ~(InputKeys(ch) \subseteq DOMAIN given \cup DOMAIN ext)
                    THEN "missing" ELSE "none",
         inputs |-> Merge(given, ext)]

\* variant: the whole mapping is passed on
SelectedInputs_All(ch, inputs) == inputs

\* LLMChain.prep_prompts: only the prompt's declared variables are passed on
SelectedInputs(ch, inputs) == Restrict(inputs, ch.prompt.input_variables)

\* the prompt an LLMChain sends for the given (prepared) inputs
PrepPrompt(ch, inputs) == Format(ch.prompt, SelectedInputs(ch, inputs))

\* variant: only the outputs are returned
PrepOutputs_OnlyOutputs(inputs, outputs) == outputs

\* Chain.prep_outputs with return_only_outputs=False
PrepOutputs(inputs, outputs) == Merge(inputs, outputs)

\* variant: a stage's output is not kept
Record_Dropped(known, outputs) == known

\* SequentialChain._call: known_values.update(outputs)
Record(known, outputs) == Merge(known, outputs)

\* SequentialChain.validate_chains: every stage's input keys are known
\* before it, no output key is produced twice, every declared output exists
RECURSIVE KnownBefore(_, _, _)
KnownBefore(cs, inputs, i) ==
    IF i <= 1 THEN inputs
    ELSE KnownBefore(cs, inputs, i-1) \cup {cs[i-1].output_key}

ValidateChains(sq) ==
    /\ \A i \in 1..Len(sq.chains) :
          /\ (InputKeys(sq.chains[i]) \ MemoryVariables(sq.chains[i].memory))
                 \subseteq KnownBefore(sq.chains, sq.input_variables, i)
          /\ sq.chains[i].output_key
                 \notin KnownBefore(sq.chains, sq.input_variables, i)
    /\ sq.output_variables
          \subseteq KnownBefore(sq.chains, sq.input_variables, Len(sq.chains) + 1)

(* -------------------------------- state ------------------------------- *)
VARIABLES
    script,          \* the script this process runs
    pc,              \* position in the script
    runs,            \* script runs started so far
    input_text,      \* value of the text input in the current run
    requests,        \* completion requests issued in the current run
    display,         \* what the current run has written or printed
    error,           \* the unhandled error that ended the current run
    known_values,    \* SequentialChain's accumulated mapping
    stage,           \* chain calls completed in the current run
    stage_inputs,    \* prepared inputs of the chain call in progress
    person_memory,   \* chat entries of chain's buffer
    dob_memory,      \* chat entries of chain2's buffer
    desc_memory,     \* chat entries of chain3's buffer
    result,          \* what parent_chain(input_text) returned
    invocations,     \* pipeline invocations that returned in this process
    fmt_prompt,      \* template of a stand-alone format call
    fmt_kwargs,      \* its keyword arguments
    fmt_out          \* its outcome

vars == <<script, pc, runs, input_text, requests, display, error,
          known_values, stage, stage_inputs, person_memory, dob_memory,
          desc_memory, result, invocations, fmt_prompt, fmt_kwargs, fmt_out>>

fmt_vars == <<fmt_prompt, fmt_kwargs, fmt_out>>

chain_vars == <<known_values, stage, stage_inputs, person_memory, dob_memory,
                desc_memory, result, invocations>>

NoOut == [error |-> "pending", text |-> <<>>]

Request(text) == [prompt |-> text, temperature |-> Temperature]

Buffer(name) ==
    CASE name = "person_memory" -> person_memory
      [] name = "dob_memory"    -> dob_memory
      [] name = "desc_memory"   -> desc_memory
      [] OTHER                  -> <<>>

Init ==
    /\ script \in Scripts
    /\ pc = "start"
    /\ runs = 0
    /\ input_text = <<>>
    /\ requests = <<>>
    /\ display = <<>>
    /\ error = "none"
    /\ known_values = EmptyMap
    /\ stage = 0
    /\ stage_inputs = EmptyMap
    /\ person_memory = <<>>
    /\ dob_memory = <<>>
    /\ desc_memory = <<>>
    /\ result = EmptyMap
    /\ invocations = 0
    /\ fmt_prompt = first_input
    /\ fmt_kwargs = EmptyMap
    /\ fmt_out = NoOut

(* ------------------------------- main.py ------------------------------ *)
\* a submitted input runs the script from the top down to "if input_text:"
MainRun(t) ==
    /\ script = "main"
    /\ pc \in {"start", "done", "failed"}
    /\ runs < MaxRuns
    /\ runs' = runs + 1
    /\ input_text' = t
    /\ requests' = <<>>
    /\ display' = <<>>
    /\ error' = "none"
    /\ pc' = "if_input"
    /\ UNCHANGED <<script, chain_vars, fmt_vars>>

\* input_text is empty: the body of the if is skipped
MainSkip ==
    /\ script = "main"
    /\ pc = "if_input"
    /\ input_text = <<>>
    /\ pc' = "done"
    /\ UNCHANGED <<script, runs, input_text, requests, display, error,
                   chain_vars, fmt_vars>>

\* llm(input_text) is called
MainRequest ==
    /\ script = "main"
    /\ pc = "if_input"
    /\ input_text # <<>>
    /\ requests' = Append(requests, Request(input_text))
    /\ pc' = "llm"
    /\ UNCHANGED <<script, runs, input_text, display, error, chain_vars, fmt_vars>>

\* the completion comes back and st.write shows it
MainRespond(c) ==
    /\ script = "main"
    /\ pc = "llm"
    /\ display' = Append(display, [kind |-> "write", value |-> c])
    /\ pc' = "done"
    /\ UNCHANGED <<script, runs, input_text, requests, error, chain_vars, fmt_vars>>

\* variant: the request is issued again
MainFail_Retry ==
    /\ script = "main"
    /\ pc = "llm"
    /\ requests' = Append(requests, Request(input_text))
    /\ UNCHANGED <<script, pc, runs, input_text, display, error, chain_vars, fmt_vars>>

\* the request raises: nothing catches it
MainFail ==
    /\ script = "main"
    /\ pc = "llm"
    /\ error' = "api"
    /\ pc' = "failed"
    /\ UNCHANGED <<script, runs, input_text, requests, display, chain_vars, fmt_vars>>

(* ---------------------------- Simplechain.py -------------------------- *)
\* a submitted input runs the script from the top: the three buffers, the
\* three chains and parent_chain are constructed, down to "if input_text:"
ChainRun(t) ==
    /\ script = "Simplechain"
    /\ pc \in {"start", "done", "failed"}
    /\ runs < MaxRuns
    /\ runs' = runs + 1
    /\ input_text' = t
    /\ requests' = <<>>
    /\ display' = <<>>
    /\ person_memory' = <<>>
    /\ dob_memory' = <<>>
    /\ desc_memory' = <<>>
    /\ known_values' = EmptyMap
    /\ stage' = 0
    /\ stage_inputs' = EmptyMap
    /\ result' = EmptyMap
    /\ IF ValidateChains(parent_chain)
       THEN error' = "none" /\ pc' = "if_input"
       ELSE error' = "wiring" /\ pc' = "failed"
    /\ UNCHANGED <<script, invocations, fmt_vars>>

\* variant: the pipeline is called whatever the input
ChainSkip_CallsAnyway ==
    /\ script = "Simplechain"
    /\ pc = "if_input"
    /\ input_text = <<>>
    /\ known_values' = [k \in parent_chain.input_variables |-> input_text]
    /\ pc' = "pipeline"
    /\ UNCHANGED <<script, runs, input_text, requests, display, error, stage,
                   stage_inputs, person_memory, dob_memory, desc_memory,
                   result, invocations, fmt_vars>>

\* input_text is empty: the body of the if is skipped
ChainSkip ==
    /\ script = "Simplechain"
    /\ pc = "if_input"
    /\ input_text = <<>>
    /\ pc' = "done"
    /\ UNCHANGED <<script, runs, input_text, requests, display, error,
                   chain_vars, fmt_vars>>

\* parent_chain(input_text): the bare input is filed under "name"
ParentCall ==
    /\ script = "Simplechain"
    /\ pc = "if_input"
    /\ input_text # <<>>
    /\ known_values' = [k \in parent_chain.input_variables |-> input_text]
    /\ pc' = "pipeline"
    /\ UNCHANGED <<script, runs, input_text, requests, display, error, stage,
                   stage_inputs, person_memory, dob_memory, desc_memory,
                   result, invocations, fmt_vars>>

\* the next stage is called with the accumulated mapping: its inputs are
\* prepared and checked, its prompt is formatted and the request is issued
StartStage ==
    /\ script = "Simplechain"
    /\ pc = "pipeline"
    /\ stage < Len(parent_chain.chains)
    /\ LET ch   == parent_chain.chains[stage + 1]
           prep == PrepInputs(ch, TRUE, <<>>, known_values, Buffer(ch.memory.name))
           p    == PrepPrompt(ch, prep.inputs)
       IN  IF prep.error # "none"
           THEN /\ error' = prep.error
                /\ pc' = "failed"
                /\ UNCHANGED <<requests, stage_inputs>>
           ELSE IF p.error # "none"
           THEN /\ error' = p.error
                /\ pc' = "failed"
                /\ UNCHANGED <<requests, stage_inputs>>
           ELSE /\ requests' = Append(requests, Request(p.text))
                /\ stage_inputs' = prep.inputs
                /\ pc' = "stage_running"
                /\ UNCHANGED error
    /\ UNCHANGED <<script, runs, input_text, display, known_values, stage,
                   person_memory, dob_memory, desc_memory, result,
                   invocations, fmt_vars>>

\* the completion comes back: it is saved to the stage's buffer together
\* with the stage's input and recorded under the stage's output key
CompleteStage(c) ==
    /\ script = "Simplechain"
    /\ pc = "stage_running"
    /\ LET ch      == parent_chain.chains[stage + 1]
           outputs == [k \in {ch.output_key} |-> c]
           saved   == SaveContext(Buffer(ch.memory.name), ch.memory,
                                  stage_inputs, outputs, ch.output_key)
       IN  /\ person_memory' =
                 IF ch.memory.name = "person_memory" THEN saved ELSE person_memory
           /\ dob_memory' =
                 IF ch.memory.name = "dob_memory" THEN saved ELSE dob_memory
           /\ desc_memory' =
                 IF ch.memory.name = "desc_memory" THEN saved ELSE desc_memory
           /\ known_values' = Record(known_values, outputs)
    /\ stage' = stage + 1
    /\ stage_inputs' = EmptyMap
    /\ pc' = "pipeline"
    /\ UNCHANGED <<script, runs, input_text, requests, display, error, result,
                   invocations, fmt_vars>>

\* variant: the failure is swallowed and the pipeline goes on
FailStage_Swallowed ==
    /\ script = "Simplechain"
    /\ pc = "stage_running"
    /\ stage' = stage + 1
    /\ known_values' = Merge(known_values,
           [k \in {parent_chain.chains[stage + 1].output_key} |-> <<>>])
    /\ pc' = "pipeline"
    /\ UNCHANGED <<script, runs, input_text, requests, display, error,
                   stage_inputs, person_memory, dob_memory, desc_memory,
                   result, invocations, fmt_vars>>

\* the request raises: nothing catches it
FailStage ==
    /\ script = "Simplechain"
    /\ pc = "stage_running"
    /\ error' = "api"
    /\ pc' = "failed"
    /\ UNCHANGED <<script, runs, input_text, requests, display, chain_vars, fmt_vars>>

\* every stage is done: parent_chain returns and st.write shows the mapping
ParentReturn ==
    /\ script = "Simplechain"
    /\ pc = "pipeline"
    /\ stage = Len(parent_chain.chains)
    /\ result' = PrepOutputs(Restrict(known_values, parent_chain.input_variables),
                             Restrict(known_values, parent_chain.output_variables))
    /\ display' = Append(display, [kind |-> "write", value |-> result'])
    /\ invocations' = invocations + 1
    /\ pc' = "expanders"
    /\ UNCHANGED <<script, runs, input_text, requests, error, known_values,
                   stage, stage_inputs, person_memory, dob_memory,
                   desc_memory, fmt_vars>>

\* the two expanders show person_memory.buffer and desc_memory.buffer
ShowPanels ==
    /\ script = "Simplechain"
    /\ pc = "expanders"
    /\ display' = display \o
          << [kind |-> "info", label |-> "Person Name",
              value |-> BufferString(person_memory)],
             [kind |-> "info", label |-> "Major Events",
              value |-> BufferString(desc_memory)] >>
    /\ pc' = "done"
    /\ UNCHANGED <<script, runs, input_text, requests, error, chain_vars, fmt_vars>>

(* ------------------------------ prompt.py ----------------------------- *)
\* what is printed between the return of call k and the next call
PrintsAfter(k) ==
    CASE k = 1 -> << [kind |-> "print",
                      value |-> <<"******Language Translation**********">>] >>
      [] k = 2 -> << [kind |-> "print",
                      value |-> <<"*******FewShotPromptTemplate*******">>],
                     [kind |-> "print",
                      value |-> Format(few_shot, [input |-> <<"big">>]).text] >>
      [] OTHER -> <<>>

\* the next chain call: inputs prepared, prompt formatted, request issued
PromptIssue ==
    /\ script = "prompt"
    /\ pc \in {"start", "ready"}
    /\ stage < Len(Calls)
    /\ LET call == Calls[stage + 1]
           prep == PrepInputs(call.chain, call.is_dict, call.text, call.dict, <<>>)
           p    == PrepPrompt(call.chain, prep.inputs)
       IN  IF prep.error # "none"
           THEN /\ error' = prep.error
                /\ pc' = "failed"
                /\ UNCHANGED <<requests, stage_inputs>>
           ELSE IF p.error # "none"
           THEN /\ error' = p.error
                /\ pc' = "failed"
                /\ UNCHANGED <<requests, stage_inputs>>
           ELSE /\ requests' = Append(requests, Request(p.text))
                /\ stage_inputs' = prep.inputs
                /\ pc' = "llm"
                /\ UNCHANGED error
    /\ UNCHANGED <<script, runs, input_text, display, known_values, stage,
                   person_memory, dob_memory, desc_memory, result,
                   invocations, fmt_vars>>

\* the completion comes back and is printed, then the script prints up to
\* its next chain call
PromptRespond(c) ==
    /\ script = "prompt"
    /\ pc = "llm"
    /\ LET call    == Calls[stage + 1]
           outputs == [k \in {call.chain.output_key} |-> c]
           value   == IF call.run THEN outputs[call.chain.output_key]
                      ELSE PrepOutputs(stage_inputs, outputs)
           f       == Format(few_shot, [input |-> <<"big">>])
       IN  IF stage + 1 = 2 /\ f.error # "none"
           THEN /\ display' = Append(display, [kind |-> "print", value |-> value])
                                 \o SubSeq(PrintsAfter(2), 1, 1)
                /\ error' = f.error
                /\ pc' = "failed"
           ELSE /\ display' = Append(display, [kind |-> "print", value |-> value])
                                 \o PrintsAfter(stage + 1)
                /\ pc' = IF stage + 1 = Len(Calls) THEN "done" ELSE "ready"
                /\ UNCHANGED error
    /\ stage' = stage + 1
    /\ stage_inputs' = EmptyMap
    /\ UNCHANGED <<script, runs, input_text, requests, known_values,
                   person_memory, dob_memory, desc_memory, result,
                   invocations, fmt_vars>>

\* the request raises: nothing catches it
PromptFail ==
    /\ script = "prompt"
    /\ pc = "llm"
    /\ error' = "api"
    /\ pc' = "failed"
    /\ UNCHANGED <<script, runs, input_text, requests, display, chain_vars, fmt_vars>>

(* --------------------------- specifications --------------------------- *)
Next ==
    \/ \E t \in Inputs : MainRun(t)
    \/ MainSkip
    \/ MainRequest
    \/ \E c \in Completions : MainRespond(c)
    \/ MainFail
    \/ \E t \in Inputs : ChainRun(t)
    \/ ChainSkip
    \/ ParentCall
    \/ StartStage
    \/ \E c \in Completions : CompleteStage(c)
    \/ FailStage
    \/ ParentReturn
    \/ ShowPanels
    \/ PromptIssue
    \/ \E c \in Completions : PromptRespond(c)
    \/ PromptFail

Spec == Init /\ [][Next]_vars

\* a stand-alone p.format(**kwargs) for every prompt of the scripts and
\* every small keyword mapping
MaxKwargs == 3

FormatValues == {<<"v">>, <<"w", "x">>}

Kwargs ==
    UNION {[S -> FormatValues] : S \in {K \in SUBSET Keys : Cardinality(K) <= MaxKwargs}}

InitFormat ==
    /\ script = "prompt"
    /\ pc = "start"
    /\ runs = 0
    /\ input_text = <<>>
    /\ requests = <<>>
    /\ display = <<>>
    /\ error = "none"
    /\ known_values = EmptyMap
    /\ stage = 0
    /\ stage_inputs = EmptyMap
    /\ person_memory = <<>>
    /\ dob_memory = <<>>
    /\ desc_memory = <<>>
    /\ result = EmptyMap
    /\ invocations = 0
    /\ fmt_prompt \in Prompts
    /\ fmt_kwargs \in Kwargs
    /\ fmt_out = NoOut

FormatCall ==
    /\ fmt_out = NoOut
    /\ fmt_out' = Format(fmt_prompt, fmt_kwargs)
    /\ UNCHANGED <<script, pc, runs, input_text, requests, display, error,
                   chain_vars, fmt_prompt, fmt_kwargs>>

NextFormat == FormatCall

SpecFormat == InitFormat /\ [][NextFormat]_vars

(* ------------------------------ properties ---------------------------- *)
Range(q) == {q[i] : i \in 1..Len(q)}

\* text t contains the text u as a run of consecutive tokens
Contains(t, u) ==
    \E i \in 0..(Len(t) - Len(u)) : SubSeq(t, i + 1, i + Len(u)) = u

Returned == script = "Simplechain" /\ pc \in {"expanders", "done"} /\ input_text # <<>>

\* the key a stage declares as its input (its buffer's input_key)
StageInputKey(i) == parent_chain.chains[i].memory.input_key

StageOutputKey(i) == parent_chain.chains[i].output_key

\* C1: the stages of parent_chain run strictly in the order 1, 2, 3: while
\* stage i runs exactly i requests have been issued, the i-th being stage
\* i's prompt, and every earlier stage (and no later one) has recorded its
\* output under its output key; once all three have completed the returned
\* mapping holds person, dob and description.
C1_StagesInOrder ==
    script = "Simplechain" =>
        /\ stage \in 0..Len(parent_chain.chains)
        /\ \A j \in 1..Len(parent_chain.chains) :
              (StageOutputKey(j) \in DOMAIN known_values) <=> (j <= stage)
        /\ pc = "stage_running" =>
              /\ Len(requests) = stage + 1
              /\ \A i \in 1..Len(requests) :
                    requests[i].prompt[1] =
                        parent_chain.chains[i].prompt.template[1].s
        /\ pc = "pipeline" => Len(requests) = stage
        /\ Returned =>
              /\ stage = Len(parent_chain.chains)
              /\ parent_chain.output_variables \subseteq DOMAIN result
              /\ \A k \in parent_chain.output_variables :
                    result[k] = known_values[k]

C1_Witness ==
    /\ script = "Simplechain"
    /\ pc = "expanders"
    /\ stage = 3
    /\ Len(requests) = 3
    /\ {"person", "dob", "description"} \subseteq DOMAIN result

\* C2 (as stated): the returned and displayed mapping has exactly the keys
\* person, dob, description, and stage 2's recorded input is stage 1's
\* recorded output.
C2_ExactlyOutputKeys ==
    Returned =>
        /\ DOMAIN result = {"person", "dob", "description"}
        /\ dob_memory[1][1] = person_memory[1][2]

\* C2 (amended): the returned and displayed mapping has exactly the keys
\* name, person, dob, description, name holding the input as typed, and
\* stage 2's recorded input is stage 1's recorded output verbatim.
C2_InputAndOutputKeys ==
    Returned =>
        /\ DOMAIN result = {"name", "person", "dob", "description"}
        /\ result["name"] = input_text
        /\ display[1] = [kind |-> "write", value |-> result]
        /\ Len(person_memory) = 1 /\ Len(dob_memory) = 1
        /\ dob_memory[1][1] = person_memory[1][2]
        /\ person_memory[1][2] = result["person"]

C2_Witness ==
    /\ Returned
    /\ input_text = <<"Albert Einstein">>
    /\ "name" \in DOMAIN result
    /\ dob_memory[1][1] = person_memory[1][2]

\* C3: after n pipeline invocations have returned in this process, each of
\* the three buffers holds exactly n entries.
C3_BuffersAccumulate ==
    Returned =>
        /\ Len(person_memory) = invocations
        /\ Len(dob_memory) = invocations
        /\ Len(desc_memory) = invocations

\* C4: a failed request is never caught, retried or recovered: an issued
\* request either comes back with a completion of the API or fails the run;
\* the step that fails issues no request, displays nothing, completes no
\* stage and records the error; the failed run has issued no request for a
\* later stage or call and has returned nothing; and the only step after a
\* failure is the start of a new run of an interactive script (none in the
\* linear script).
C4_FailureStep ==
    /\ pc = "failed" =>
          /\ error # "none"
          /\ Len(requests) = stage + 1
          /\ result = EmptyMap
          /\ \A i \in 1..Len(display) : display[i].kind = "print"
          /\ script # "prompt"
          /\ runs' = runs + 1
          /\ requests' = <<>>
          /\ pc' = "if_input"
    /\ pc = "stage_running" =>
          \/ pc' = "failed"
          \/ /\ pc' = "pipeline"
             /\ stage' = stage + 1
             /\ requests' = requests
             /\ known_values'[StageOutputKey(stage + 1)] \in Completions
    /\ pc = "llm" =>
          \/ pc' = "failed"
          \/ /\ requests' = requests
             /\ Len(display') > Len(display)
             /\ display'[Len(display) + 1].kind \in {"write", "print"}
    /\ (pc # "failed" /\ pc' = "failed") =>
          /\ pc \in {"stage_running", "llm"}
          /\ error' = "api"
          /\ requests' = requests
          /\ display' = display
          /\ stage' = stage
          /\ known_values' = known_values
          /\ result' = result

C4_FailurePropagates == [][C4_FailureStep]_vars

C4_Witness ==
    /\ script = "Simplechain"
    /\ pc = "failed"
    /\ error = "api"
    /\ stage = 1
    /\ Len(requests) = 2

\* C5: a run of main.py with a non-empty input issues exactly one request,
\* the input itself at temperature 0.8; when the request succeeds exactly
\* one text, a completion of the API, is displayed; when it fails nothing
\* is displayed; and there is never a second request in the run.
C5_OneRequest ==
    script = "main" =>
        /\ Len(requests) <= 1
        /\ \A i \in 1..Len(requests) :
              requests[i] = [prompt |-> input_text, temperature |-> 8]
        /\ (pc \in {"llm", "done", "failed"} /\ input_text # <<>>) =>
              Len(requests) = 1
        /\ (pc = "done" /\ input_text # <<>>) =>
              /\ Len(display) = 1
              /\ display[1].kind = "write"
              /\ display[1].value \in Completions
        /\ pc \in {"llm", "failed"} => display = <<>>
        /\ pc = "failed" => error = "api"

C5_Witness ==
    /\ script = "main"
    /\ pc = "done"
    /\ input_text = <<"GDP">>
    /\ Len(requests) = 1
    /\ Len(display) = 1

\* the pieces a prompt is formatted from
Pieces(p) == IF p.type = "few_shot" THEN FewShotTemplate(p) ELSE p.template

\* C6: formatting a prompt with exactly its declared variables succeeds and
\* gives a text holding every literal piece and every supplied value and as
\* long as the pieces with the values put in; formatting it with a strict
\* subset of them is a missing-variable error and gives no text.
C6_ExactOrMissing ==
    fmt_out # NoOut =>
        LET V == fmt_prompt.input_variables
            T == Pieces(fmt_prompt)
            K == DOMAIN fmt_kwargs
        IN  /\ K = V =>
                  /\ fmt_out.error = "none"
                  /\ \A i \in 1..Len(T) :
                        IF T[i].kind = "var"
                        THEN Contains(fmt_out.text, fmt_kwargs[T[i].s])
                        ELSE T[i].s \in Range(fmt_out.text)
                  /\ Len(fmt_out.text) =
                        Cardinality({i \in 1..Len(T) : T[i].kind = "lit"})
                        + Len(Flatten([i \in 1..Len(SelectSeq(T, LAMBDA x : x.kind = "var")) |->
                               fmt_kwargs[SelectSeq(T, LAMBDA x : x.kind = "var")[i].s]]))
            /\ (K \subseteq V /\ K # V) =>
                  /\ fmt_out.error = "missing"
                  /\ fmt_out.text = <<>>

C6_Witness ==
    /\ fmt_prompt = lang_prompt
    /\ DOMAIN fmt_kwargs = {"sentence"}
    /\ fmt_out.error = "missing"

FewShotPrinted == script = "prompt" /\ Len(display) >= 5

ExampleLine(i) ==
    <<"word:">> \o examples[i].word \o <<", antonym:">> \o examples[i].antonym

\* C8 (as stated): the rendered few-shot text has the line of (tall, short)
\* before the line of (happy, sad), and ends with one line holding the
\* query word big and the empty antonym slot.
C8_QueryOnOneLine ==
    FewShotPrinted =>
        LET L == Lines(display[5].value)
        IN  /\ \E i, j \in 1..Len(L) :
                  i < j /\ j < Len(L) /\ L[i] = ExampleLine(1) /\ L[j] = ExampleLine(2)
            /\ <<"big">> \in {<<x>> : x \in Range(L[Len(L)])}
            /\ \E x \in Range(L[Len(L)]) : x \in {" antonym:", ", antonym:"}

\* C8 (amended): the rendered few-shot text has the line of (tall, short)
\* before the line of (happy, sad), both before the query, and ends with
\* the line "word:big" followed by a last, unterminated line " antonym:".
C8_QueryOnTwoLines ==
    FewShotPrinted =>
        LET L == Lines(display[5].value)
            n == Len(L)
        IN  /\ n >= 4
            /\ \E i, j \in 1..(n - 2) :
                  i < j /\ L[i] = ExampleLine(1) /\ L[j] = ExampleLine(2)
            /\ L[n - 1] = <<"word:", "big">>
            /\ L[n] = <<" antonym:">>
            /\ \A i \in 1..(n - 2) : "big" \notin Range(L[i])

C8_Witness ==
    /\ FewShotPrinted
    /\ display[4].value = <<"*******FewShotPromptTemplate*******">>
    /\ Contains(display[5].value, <<"word:", "big">>)

\* C9: every stage's input key is name or the output key of an earlier
\* stage, parent_chain is constructed without a wiring error, no stage ever
\* misses an input, and while a stage runs its input key is in the
\* accumulated mapping.
C9_InputsAvailable ==
    script = "Simplechain" =>
        /\ \A i \in 1..Len(parent_chain.chains) :
              /\ parent_chain.chains[i].prompt.input_variables = {StageInputKey(i)}
              /\ StageInputKey(i) \in
                    parent_chain.input_variables
                        \cup {StageOutputKey(j) : j \in 1..(i - 1)}
        /\ error \notin {"wiring", "missing"}
        /\ pc = "stage_running" =>
              /\ StageInputKey(stage + 1) \in DOMAIN known_values
              /\ stage_inputs[StageInputKey(stage + 1)]
                    = known_values[StageInputKey(stage + 1)]

C9_Witness ==
    /\ script = "Simplechain"
    /\ pc = "stage_running"
    /\ stage = 2
    /\ "dob" \in DOMAIN known_values

\* C10: in main.py and Simplechain.py a run with an empty input issues no
\* request, appends to no buffer and displays nothing; requests and buffer
\* entries exist only in a run with a non-empty input; and the buffer panels
\* come after the displayed result of a pipeline that has returned.
C10_EmptyInputDoesNothing ==
    script \in {"main", "Simplechain"} =>
        /\ input_text = <<>> =>
              /\ requests = <<>>
              /\ display = <<>>
              /\ person_memory = <<>> /\ dob_memory = <<>> /\ desc_memory = <<>>
              /\ result = EmptyMap
              /\ pc \in {"start", "if_input", "done"}
        /\ \A i \in 1..Len(display) :
              display[i].kind = "info" =>
                  /\ i > 1
                  /\ display[1].kind = "write"
                  /\ result # EmptyMap
                  /\ stage = Len(parent_chain.chains)
                  /\ pc = "done"

C10_Witness ==
    /\ script = "Simplechain"
    /\ runs > 0
    /\ pc = "done"
    /\ input_text = <<>>
    /\ requests = <<>>

====
